---- MODULE Spec2Model ----
(***************************************************************************)
(* tv-bitget-router: the signal handlers of app.py (webhook, ccxt based)   *)
(* and trade.py (handle_signal, raw REST based) against one venue.         *)
(*                                                                         *)
(* Quantities, prices and money are integers in the venue's base unit.     *)
(* Time is abstracted: the code tests every TTL lazily, when the entry is   *)
(* read, so the step that reads an entry chooses which entries have run    *)
(* out by then.                                                            *)
(***************************************************************************)
EXTENDS Integers, Sequences, FiniteSets, TLC

(* ---------------------------------------------------------------- bounds *)
NSymbols == 2      \* symbols the signal source may name
NProcs == 2        \* signals handled concurrently (one coroutine each)
MaxSignals == 2    \* signals received in one behaviour
MaxQty == 2        \* largest net position the venue's margin allows
MaxFaults == 1     \* oracle and venue calls that fail in one behaviour
MaxCalls == 2      \* placement calls counted for one signal (the count saturates)

Symbols == 1..NSymbols
Procs == 1..NProcs
Sides == {"buy", "sell"}
\* alert.size: 0 stands for an absent size, MaxQty + 1 for one above any holding
Sizes == {0, 1, MaxQty + 1}
QtyCap == MaxQty + 1
Sat(x) == IF x > QtyCap THEN QtyCap ELSE x

(* ------------------------------------------------- configuration (env)   *)
MAX_COINS == 1                \* env MAX_COINS (default 5), here below NSymbols
FRACTION_PCT == 5             \* FRACTION_PER_POSITION = 0.05, in percent
DEFAULT_ASSUMED_LEVERAGE == 10
FIXED_MARGIN_USD == 6
DEFAULT_LEVERAGE == 10

VARIABLES
    impl,                     \* which router runs: "app" (app.py) or "trade" (trade.py)
    ALLOW_SHORTS,
    DRY_RUN,
    REQUIRE_INTENT_FOR_OPEN,
    FORCE_FIXED_SIZING,
    REENTER_ON_OPPOSITE,      \* config.py; read by neither handler
    WEBHOOK_SECRET,           \* env WEBHOOK_SECRET holds a secret (FALSE: unset or empty)
    net,                      \* the venue: net position per symbol (>0 long, <0 short)
    open_symbols_cache,       \* app.py: symbol -> "long"/"short", "none" when absent
    recent_alerts,            \* app.py: keys of the TTLCache
    position_cache,           \* trade.py: symbol -> side, "none" when absent
    proc,                     \* one record per coroutine
    nsignals,                 \* signals received so far
    nfaults,                  \* calls to the venue that failed so far
    window,                   \* history: signal keys received within the dedupe window
    blocked,                  \* history: symbols refused with max_coins within the blocked TTL
    sz                        \* the sizing functions on their own: inputs and quantity

handlers == <<impl, ALLOW_SHORTS, DRY_RUN, REQUIRE_INTENT_FOR_OPEN, FORCE_FIXED_SIZING,
              REENTER_ON_OPPOSITE, WEBHOOK_SECRET, net, open_symbols_cache, recent_alerts, position_cache,
              proc, nsignals, nfaults, window, blocked>>

vars == <<handlers, sz>>

\* what no step of a handler writes
config == <<impl, ALLOW_SHORTS, DRY_RUN, REQUIRE_INTENT_FOR_OPEN, FORCE_FIXED_SIZING,
           REENTER_ON_OPPOSITE, WEBHOOK_SECRET, sz>>

(* ------------------------------------------------------------- the venue *)
Abs(n) == IF n < 0 THEN -n ELSE n
SideOf(n) == IF n > 0 THEN "long" ELSE IF n < 0 THEN "short" ELSE "none"
HeldSymbols == {s \in Symbols : net[s] # 0}

\* The venue takes a reduce-only order only against an opposite position, and
\* any other order only while the resulting position stays within its margin.
VenueAccepts(n, side, qty, ro) ==
    IF ro THEN (n > 0 /\ side = "sell") \/ (n < 0 /\ side = "buy")
    ELSE Abs(IF side = "buy" THEN n + qty ELSE n - qty) <= MaxQty

Min(a, b) == IF a < b THEN a ELSE b
Max(a, b) == IF a > b THEN a ELSE b

VenueFill(n, side, qty, ro) ==
    IF ro THEN (IF n > 0 THEN n - Min(qty, n) ELSE n + Min(qty, -n))
    ELSE (IF side = "buy" THEN n + qty ELSE n - qty)

(* ---------------------------------------------------------------- sizing *)
\* A market as ccxt reports it: precision.amount (the lot step, 0 when the
\* venue reports none) and limits.amount.min (0 when absent).
Market(precision, min_amt) == [precision |-> precision, min |-> min_amt]
StdMarket == Market(1, 1)

\* ccxt's amount_to_precision truncates to the market's amount step.
AmountToPrecision(step, amount) == (amount \div step) * step

\* app.py round_amount
round_amount(market, amount) ==
    IF amount <= 0 THEN 0
    ELSE LET a1 == IF market.precision # 0
                   THEN AmountToPrecision(market.precision, amount)
                   ELSE amount
         IN IF market.min # 0 /\ a1 < market.min THEN 0 ELSE a1

\* app.py calc_open_amount: price 0 stands for "no price", equity 0 for "no
\* balance"; the division is float division, kept at base-unit resolution.
calc_open_amount(price, equity, lev, market) ==
    IF price <= 0 THEN 0
    ELSE IF equity <= 0 THEN 0
    ELSE LET desired_notional_x100 == equity * FRACTION_PCT * lev
             raw_amount == desired_notional_x100 \div (100 * price)
         IN round_amount(market, raw_amount)

\* trade.py round_step
round_step(x, step) == IF step <= 0 THEN x ELSE (x \div step) * step

\* notional / max(price, 1e-12): with no price the quotient is beyond any
\* quantity of the model; EPS_INV stands for 1/1e-12.
EPS_INV == 1000000
DivPrice(notional, price) ==
    IF price >= 1 THEN notional \div price ELSE notional * EPS_INV

\* trade.py compute_qty_from_margin
compute_qty_from_margin(price, leverage, margin_usd, min_qty, qty_step) ==
    LET notional == leverage * margin_usd
        qty == Max(min_qty, DivPrice(notional, price))
    IN round_step(qty, qty_step)

\* trade.py handle_signal, the branch without FORCE_FIXED_SIZING
qty_from_tv_size(tv_size, min_qty, qty_step) ==
    Max(min_qty, round_step(tv_size, qty_step))

\* risk.py target_qty_for_margin and round_size_to_step (step 0: no lot given)
target_qty_for_margin(target_margin_usdt, leverage, mark_price) ==
    IF mark_price <= 0 \/ leverage <= 0 \/ target_margin_usdt <= 0 THEN 0
    ELSE (target_margin_usdt * leverage) \div mark_price

round_size_to_step(step, qty) ==
    IF qty <= 0 THEN 0
    ELSE LET st == IF step <= 0 THEN 1 ELSE step
         IN (qty \div st) * st

\* what the oracles may answer in the handler model
Prices == {0, 30, 60}
Equities == {0, 120}

(* ------------------------------------------------------------ coroutines *)
\* a call to the venue answers (ok) or fails; failures are bounded by MaxFaults
MayAnswer(ok) == ok \/ nfaults < MaxFaults
Answered(ok) == nfaults' = IF ok THEN nfaults ELSE nfaults + 1

IdleProc ==
    [pc |-> "idle", sym |-> 1, side |-> "buy", size |-> 0,
     auth |-> TRUE,         \* the request's secret equals the configured one
     held |-> "none", intent |-> "-", reduce_only |-> FALSE, count |-> -1,
     amount |-> 0, result |-> "-",
     \* history of this signal, read by the properties only
     placed |-> FALSE,      \* the order was sent to the venue
     calls |-> 0,           \* how many times the placement was called on the venue
     fill |-> FALSE,        \* and the venue took it
     venue_qty |-> 0,       \* what the venue held when a reduce-only order was sent
     seen_qty |-> -1,       \* the held quantity read for a reduce-only order (app.py)
     basis |-> "-",         \* where the classified position came from: "venue" (a
                            \* query of this signal), "cache" (left by another
                            \* signal), "failed" (a query that failed)
     quote |-> -1,          \* the price the sizing read; 0 when the price or the
                            \* equity oracle gave no usable value
     overlap |-> "none",    \* intent of an order filled on the symbol since this
                            \* coroutine read its position
     dup |-> FALSE,         \* an identical signal came within the dedupe window
     blk |-> FALSE]         \* the symbol was refused with max_coins within the TTL

\* the coroutine is between its first read of the position and its order
InSection(r) ==
    r.pc \in {"size_close", "size_open", "place", "t_count", "t_size", "t_place"}

Key(r) == <<r.sym, r.side, r.size>>

CacheLen(cache) == Cardinality({s \in Symbols : cache[s] # "none"})

Finish(r, result) == [r EXCEPT !.pc = "done", !.result = result]

\* one more call of the venue's order placement for this signal
CountCall(r) == [r EXCEPT !.calls = Min(r.calls + 1, MaxCalls)]

\* p's order was filled: the coroutines that have read the position of the same
\* symbol and not yet sent their order are told what overtook them. A close
\* counts when it took the whole quantity it had read and the overtaken
\* coroutine had read that same quantity.
NoteFill(pr, p, filled) ==
    [q \in Procs |->
        IF /\ filled /\ q # p /\ InSection(pr[q]) /\ pr[q].sym = pr[p].sym
           /\ pr[p].intent = "CLOSE" =>
                 pr[p].amount = pr[p].seen_qty /\ pr[q].seen_qty = pr[p].seen_qty
        THEN [pr[q] EXCEPT !.overlap = pr[p].intent] ELSE pr[q]]

\* coroutines are interchangeable: a new signal takes the first one never used,
\* and one that has finished only when none is left unused
Free(p) ==
    \/ /\ proc[p].pc = "idle"
       /\ \A q \in Procs : q < p => proc[q].pc # "idle"
    \/ /\ proc[p].pc = "done"
       /\ \A q \in Procs : proc[q].pc # "idle"

(* ---------------------------------------------------- app.py: classifier *)
\* app.py webhook, lines 366-378
AppReduceOnly(held_side, tv_side) ==
    IF tv_side = "buy"
    THEN (IF held_side = "short" THEN TRUE ELSE FALSE)
    ELSE (IF held_side = "long" THEN TRUE ELSE FALSE)

\* a guard that forgets the held side: every order that is not reduce-only
\* counts as a new open
is_new_open_any(held_side, reduce_only) == ~reduce_only

\* app.py webhook, line 386
is_new_open(held_side, reduce_only) == held_side = "none" /\ ~reduce_only

\* app.py webhook, line 381
AppShortsBlocked(held_side, tv_side) ==
    held_side = "none" /\ tv_side = "sell" /\ ~ALLOW_SHORTS

\* the limit tested with > in place of >=
AppMaxCoinsReached_gt(new_open, cache) == new_open /\ CacheLen(cache) > MAX_COINS

\* app.py webhook, line 387
AppMaxCoinsReached(new_open, cache) == new_open /\ CacheLen(cache) >= MAX_COINS

\* app.py webhook, lines 359-389, once held_side is known
AppClassify(r, held_side, cache) ==
    LET ro == AppReduceOnly(held_side, r.side)
        new_open == is_new_open(held_side, ro)
        r1 == [r EXCEPT !.held = held_side, !.reduce_only = ro,
                        !.intent = IF new_open THEN "OPEN"
                                   ELSE IF ro THEN "CLOSE" ELSE "ADD",
                        !.count = IF new_open THEN CacheLen(cache) ELSE -1]
    IN IF AppShortsBlocked(held_side, r.side) THEN Finish(r1, "shorts_blocked")
       ELSE IF AppMaxCoinsReached(new_open, cache) THEN Finish(r1, "max_coins")
       ELSE [r1 EXCEPT !.pc = IF ro THEN "size_close" ELSE "size_open"]

\* the max_coins refusals are remembered for the properties
NoteBlocked(r) == IF r.result \in {"max_coins", "max_coins_reached"}
                  THEN blocked \cup {r.sym} ELSE blocked

\* a TTL is tested when its entry is read: the entry has run out by then, or not
Live(entries, e, expired) == IF expired THEN entries \ {e} ELSE entries

(* -------------------------------------------------------- app.py: steps  *)
\* a request reaches app.py webhook, which starts with ensure_exchange: the
\* positions are synced only while the cache is empty
ensure_exchange(p) ==
    /\ impl = "app"
    /\ Free(p)
    /\ nsignals < MaxSignals
    /\ nsignals' = nsignals + 1
    /\ \E ok \in BOOLEAN :
          /\ MayAnswer(ok)
          /\ IF CacheLen(open_symbols_cache) = 0
             THEN /\ Answered(ok)
                  /\ open_symbols_cache' =
                        IF ok THEN [s \in Symbols |-> SideOf(net[s])]
                        ELSE open_symbols_cache      \* fetch_positions raised
                  /\ proc' = [proc EXCEPT ![p] =
                        [IdleProc EXCEPT !.pc = "auth",
                                         !.basis = IF ok THEN "venue" ELSE "-"]]
             ELSE /\ ok
                  /\ proc' = [proc EXCEPT ![p] = [IdleProc EXCEPT !.pc = "auth"]]
                  /\ UNCHANGED <<nfaults, open_symbols_cache>>
    /\ UNCHANGED <<config, net, recent_alerts, position_cache,
                   window, blocked>>

\* a dedupe test that lets every signal through
is_duplicate_never(alerts, key) == FALSE

\* a secret test that lets every request through
secret_ok_any(matches) == TRUE

\* app.py webhook, line 336: the secret is tested only when one is configured
AppSecretOk(matches) == ~WEBHOOK_SECRET \/ matches

\* app.py is_duplicate, on the keys the TTLCache still holds
is_duplicate(alerts, key) == key \in alerts

\* app.py webhook, lines 335-389: secret, dedupe, cached position, classifier
webhook_check(p) ==
    /\ proc[p].pc = "auth"
    /\ \E sym \in Symbols, side \in Sides, size \in Sizes, auth \in BOOLEAN,
          expired \in BOOLEAN, unblocked \in BOOLEAN :
       LET r == [proc[p] EXCEPT !.sym = sym, !.side = side, !.size = size, !.auth = auth]
           alerts == Live(recent_alerts, Key(r), expired)
           seen == Live(window, Key(r), expired)
           r0 == [r EXCEPT !.dup = Key(r) \in seen,
                           !.blk = r.sym \in Live(blocked, r.sym, unblocked),
                           !.basis = "-"]
       IN /\ expired => AppSecretOk(auth) /\ Key(r) \in recent_alerts
          /\ unblocked => AppSecretOk(auth) /\ sym \in blocked
          /\ IF ~AppSecretOk(r.auth)
             THEN /\ proc' = [proc EXCEPT ![p] =
                                Finish([IdleProc EXCEPT !.auth = FALSE], "unauthorized")]
                  /\ UNCHANGED <<recent_alerts, window, blocked>>
             ELSE IF is_duplicate(alerts, Key(r))
             THEN /\ proc' = [proc EXCEPT ![p] = Finish(r0, "duplicate")]
                  /\ blocked' = Live(blocked, r.sym, unblocked)
                  /\ UNCHANGED <<recent_alerts, window>>
             ELSE LET r1 == IF open_symbols_cache[r.sym] # "none"
                            THEN AppClassify([r0 EXCEPT !.basis = IF r.basis = "venue"
                                                                  THEN "venue" ELSE "cache"],
                                             open_symbols_cache[r.sym],
                                             open_symbols_cache)
                            ELSE [r0 EXCEPT !.pc = "fetch_pos"]
                  IN /\ recent_alerts' = alerts \cup {Key(r)}
                     /\ window' = seen \cup {Key(r)}
                     /\ proc' = [proc EXCEPT ![p] = r1]
                     /\ blocked' = IF r1.result = "max_coins"
                                   THEN blocked \cup {r.sym}
                                   ELSE Live(blocked, r.sym, unblocked)
    /\ UNCHANGED <<nfaults, config, net, open_symbols_cache, position_cache, nsignals>>

\* app.py figure_position_side on a cache miss, then lines 359-389
figure_position_side(p) ==
    LET r == proc[p] IN
    /\ r.pc = "fetch_pos"
    /\ \E ok \in BOOLEAN :
          /\ MayAnswer(ok)
          /\ Answered(ok)
          /\ LET held == IF ok THEN SideOf(net[r.sym]) ELSE "none"
                 cache == IF held # "none"
                          THEN [open_symbols_cache EXCEPT ![r.sym] = held]
                          ELSE open_symbols_cache
                 r1 == AppClassify([r EXCEPT !.basis = IF ok THEN "venue" ELSE "failed"],
                                   held, cache)
             IN /\ open_symbols_cache' = cache
                /\ proc' = [proc EXCEPT ![p] = r1]
                /\ blocked' = NoteBlocked(r1)
    /\ UNCHANGED <<config, net, recent_alerts, position_cache,
                   nsignals, window>>

\* the test that skips the order with a < in place of the <=
no_amount_lt(amount) == amount < 0

\* app.py webhook, lines 415 and 423, trade.py handle_signal, line 258
no_amount(amount) == amount <= 0

\* app.py webhook, lines 395-418: the size of a reduce-only order
AppCloseAmount(held_contracts, req_size, market) ==
    round_amount(market, IF req_size > 0 THEN Min(held_contracts, req_size)
                         ELSE held_contracts)

size_close(p) ==
    LET r == proc[p] IN
    /\ r.pc = "size_close"
    /\ \E ok \in BOOLEAN :
          /\ MayAnswer(ok)
          /\ Answered(ok)
          /\ LET held_contracts == IF ok THEN Abs(net[r.sym]) ELSE 0
                 amount == AppCloseAmount(held_contracts, r.size, StdMarket)
             IN proc' = [proc EXCEPT ![p] =
                   IF held_contracts <= 0 THEN Finish(r, "no_position_to_reduce")
                   ELSE IF no_amount(amount) THEN Finish(r, "reduce_too_small")
                   ELSE [r EXCEPT !.amount = amount, !.pc = "place", !.overlap = "none",
                                   !.seen_qty = held_contracts]]
    /\ UNCHANGED <<config, net, open_symbols_cache, recent_alerts, position_cache,
                   nsignals, window, blocked>>

\* app.py webhook, lines 420-425
size_open(p) ==
    LET r == proc[p] IN
    /\ r.pc = "size_open"
    /\ \E price \in Prices, equity \in Equities :
          /\ MayAnswer(price > 0 /\ equity > 0)
          /\ Answered(price > 0 /\ equity > 0)
          /\ LET amount == calc_open_amount(price, equity, DEFAULT_ASSUMED_LEVERAGE, StdMarket)
                 r1 == [r EXCEPT !.quote = IF price > 0 /\ equity > 0 THEN price ELSE 0]
             IN proc' = [proc EXCEPT ![p] =
                   IF no_amount(amount) THEN Finish(r1, "amount_zero")
                   ELSE [r1 EXCEPT !.amount = amount, !.pc = "place"]]
    /\ UNCHANGED <<config, net, open_symbols_cache, recent_alerts, position_cache,
                   nsignals, window, blocked>>

\* app.py update_open_symbols
update_open_symbols(cache, symbol, side_after) ==
    [cache EXCEPT ![symbol] = side_after]

\* a handler that records the side before it knows that the order went through
cache_after_open_always(cache, r, raised) ==
    update_open_symbols(cache, r.sym, IF r.side = "buy" THEN "long" ELSE "short")

\* app.py webhook, lines 428-449: the side of an open is recorded after
\* place_order_bitget returned; when it raised, the except branches are next
cache_after_open(cache, r, raised) ==
    IF raised THEN cache
    ELSE update_open_symbols(cache, r.sym, IF r.side = "buy" THEN "long" ELSE "short")

\* app.py webhook, lines 427-451 with place_order_bitget returning
place_ok(p) ==
    LET r == proc[p]
        n == net[r.sym]
        sent == ~DRY_RUN
        r0 == IF sent THEN CountCall(r) ELSE r
        r1 == [r0 EXCEPT !.placed = sent, !.fill = sent,
                         !.venue_qty = IF r.reduce_only THEN Abs(n) ELSE 0]
    IN /\ r.pc = "place"
       /\ DRY_RUN \/ VenueAccepts(n, r.side, r.amount, r.reduce_only)
       /\ net' = IF sent
                 THEN [net EXCEPT ![r.sym] = VenueFill(n, r.side, r.amount, r.reduce_only)]
                 ELSE net
       /\ IF r.reduce_only
          THEN /\ proc' = NoteFill([proc EXCEPT ![p] = [r1 EXCEPT !.pc = "post_close"]],
                                   p, sent)
               /\ UNCHANGED open_symbols_cache
          ELSE /\ proc' = NoteFill([proc EXCEPT ![p] = Finish(r1, "executed")], p, sent)
               /\ open_symbols_cache' = cache_after_open(open_symbols_cache, r, FALSE)
       /\ UNCHANGED <<nfaults, config, recent_alerts, position_cache,
                      nsignals, window, blocked>>

\* a handler that sends the order again when the placement raised
order_failed_retry(r) == [r EXCEPT !.pc = "place"]

\* app.py webhook, lines 453-461: the except branches answer the error
order_failed(r) == Finish(r, "error")

\* app.py webhook, lines 427-429 and 453-461: create_order raised
place_fail(p) ==
    LET r == proc[p] IN
    /\ r.pc = "place"
    /\ ~DRY_RUN
    /\ \E ok \in BOOLEAN :
          /\ ok = ~VenueAccepts(net[r.sym], r.side, r.amount, r.reduce_only)
          /\ MayAnswer(ok)
          /\ Answered(ok)
    /\ proc' = [proc EXCEPT ![p] =
                   order_failed([CountCall(r) EXCEPT
                                    !.placed = TRUE,
                                    !.venue_qty = IF r.reduce_only THEN Abs(net[r.sym])
                                                  ELSE 0])]
    /\ open_symbols_cache' = IF r.reduce_only THEN open_symbols_cache
                             ELSE cache_after_open(open_symbols_cache, r, TRUE)
    /\ UNCHANGED <<config, net, recent_alerts, position_cache,
                   nsignals, window, blocked>>

\* app.py webhook, lines 433-445: the cache after a reduce-only order
post_close(p) ==
    LET r == proc[p] IN
    /\ r.pc = "post_close"
    /\ \E ok \in BOOLEAN :
          /\ MayAnswer(ok)
          /\ Answered(ok)
          /\ open_symbols_cache' =
              update_open_symbols(open_symbols_cache, r.sym,
                                  IF ok THEN SideOf(net[r.sym]) ELSE "none")
    /\ proc' = [proc EXCEPT ![p] = Finish(r, "executed")]
    /\ UNCHANGED <<config, net, recent_alerts, position_cache,
                   nsignals, window, blocked>>

(* ------------------------------------------------------ trade.py: steps  *)
\* a classifier that compares the sides the wrong way round
decide_intent_swapped(have, side) ==
    IF have = "none" THEN "entry"
    ELSE IF (have = "long" /\ side = "sell") \/ (have = "short" /\ side = "buy")
    THEN "dca"
    ELSE "exit"

\* trade.py decide_intent; have is current.get(symbol)
decide_intent(have, side) ==
    IF have = "none" THEN "entry"
    ELSE IF (have = "long" /\ side = "buy") \/ (have = "short" /\ side = "sell")
    THEN "dca"
    ELSE "exit"

IntentName(i) == IF i = "entry" THEN "OPEN" ELSE IF i = "dca" THEN "ADD" ELSE "CLOSE"

\* trade.py fetch_positions, line 90: the cached answer is used; fresh says
\* that less than two seconds passed since the cache was filled
PosCacheUsable(cache, fresh) == fresh /\ CacheLen(cache) > 0

\* trade.py handle_signal, line 238
TradeMaxCoinsReached(count) == count >= MAX_COINS

\* trade.py handle_signal, line 241
TradeShortsDisabled(side) == REQUIRE_INTENT_FOR_OPEN /\ ~ALLOW_SHORTS /\ side = "sell"

\* trade.py handle_signal, lines 237-242, for an entry once the count is known
TradeGuard(r, count) ==
    LET r1 == [r EXCEPT !.count = count] IN
    IF TradeMaxCoinsReached(count) THEN Finish(r1, "max_coins_reached")
    ELSE IF TradeShortsDisabled(r.side) THEN Finish(r1, "shorts_disabled")
    ELSE [r1 EXCEPT !.pc = "t_size"]

\* trade.py handle_signal, line 219: the secret is compared with the
\* environment's value, which no request equals while it is unset
TradeSecretOk(matches) == WEBHOOK_SECRET /\ matches

\* trade.py handle_signal, lines 218-229
handle_signal_start(p) ==
    /\ impl = "trade"
    /\ Free(p)
    /\ nsignals < MaxSignals
    /\ nsignals' = nsignals + 1
    /\ \E sym \in Symbols, side \in Sides, size \in Sizes, auth \in BOOLEAN,
          expired \in BOOLEAN, unblocked \in BOOLEAN :
       LET r == [IdleProc EXCEPT !.sym = sym, !.side = side, !.size = size, !.auth = auth]
           seen == Live(window, Key(r), expired)
       IN /\ expired => TradeSecretOk(auth) /\ Key(r) \in window
          /\ unblocked => TradeSecretOk(auth) /\ sym \in blocked
          /\ IF ~TradeSecretOk(r.auth)
             THEN /\ proc' = [proc EXCEPT ![p] =
                                Finish([IdleProc EXCEPT !.auth = FALSE], "bad secret")]
                  /\ UNCHANGED <<window, blocked>>
             ELSE /\ proc' = [proc EXCEPT ![p] =
                                [r EXCEPT !.pc = "t_fetch", !.dup = Key(r) \in seen,
                                          !.blk = r.sym \in Live(blocked, r.sym, unblocked)]]
                  /\ window' = seen \cup {Key(r)}
                  /\ blocked' = Live(blocked, r.sym, unblocked)
    /\ UNCHANGED <<nfaults, config, net, open_symbols_cache, recent_alerts, position_cache>>

\* what the positions endpoint answers: the rows, or a body without code 00000
VenueRows(ok) == [s \in Symbols |-> IF ok THEN SideOf(net[s]) ELSE "none"]

\* trade.py handle_signal, lines 233-242, from the answer of fetch_positions
TradeClassify(r, cur, cache, fresh) ==
    LET intent == decide_intent(cur[r.sym], r.side)
        r1 == [r EXCEPT !.held = cur[r.sym], !.intent = IntentName(intent),
                        !.reduce_only = (intent = "exit")]
    IN IF intent # "entry" THEN [r1 EXCEPT !.pc = "t_size"]
       ELSE IF PosCacheUsable(cache, fresh) THEN TradeGuard(r1, CacheLen(cache))
       ELSE [r1 EXCEPT !.pc = "t_count"]

\* trade.py fetch_positions called from handle_signal line 233
fetch_positions(p) ==
    LET r == proc[p] IN
    /\ r.pc = "t_fetch"
    /\ \E fresh \in BOOLEAN, ok \in BOOLEAN :
          IF PosCacheUsable(position_cache, fresh)
          THEN /\ ok
               /\ proc' = [proc EXCEPT ![p] =
                             TradeClassify([r EXCEPT !.basis = "cache"],
                                           position_cache, position_cache, fresh)]
               /\ UNCHANGED <<nfaults, position_cache>>
          ELSE /\ ~fresh
               /\ MayAnswer(ok)
               /\ Answered(ok)
               /\ position_cache' = VenueRows(ok)
               /\ proc' = [proc EXCEPT ![p] =
                             TradeClassify([r EXCEPT !.basis = IF ok THEN "venue"
                                                               ELSE "failed"],
                                           VenueRows(ok), VenueRows(ok), TRUE)]
    /\ blocked' = NoteBlocked(proc'[p])
    /\ UNCHANGED <<config, net, open_symbols_cache, recent_alerts, nsignals, window>>

\* trade.py count_distinct_symbols when the cache held no rows: a second query
count_distinct_symbols(p) ==
    LET r == proc[p] IN
    /\ r.pc = "t_count"
    /\ \E ok \in BOOLEAN :
          /\ MayAnswer(ok)
          /\ Answered(ok)
          /\ position_cache' = VenueRows(ok)
          /\ proc' = [proc EXCEPT ![p] = TradeGuard(r, CacheLen(VenueRows(ok)))]
    /\ blocked' = NoteBlocked(proc'[p])
    /\ UNCHANGED <<config, net, open_symbols_cache, recent_alerts, nsignals, window>>

\* a query of trade.py raised (aiohttp timeout): handle_signal propagates it
trade_raise(p) ==
    LET r == proc[p] IN
    /\ r.pc \in {"t_fetch", "t_count", "t_size", "t_place"}
    /\ MayAnswer(FALSE)
    /\ Answered(FALSE)
    /\ proc' = [proc EXCEPT ![p] =
                   Finish([(IF r.pc = "t_place" THEN CountCall(r) ELSE r) EXCEPT
                                    !.placed = (r.pc = "t_place"),
                                    !.basis = IF r.pc = "t_fetch" THEN "failed"
                                              ELSE r.basis,
                                    !.venue_qty = IF r.pc = "t_place" /\ r.reduce_only
                                                  THEN Abs(net[r.sym]) ELSE 0], "raised")]
    /\ UNCHANGED <<config, net, open_symbols_cache, recent_alerts, position_cache,
                   nsignals, window, blocked>>

\* trade.py fetch_symbol_meta: the lot step and the minimum of the model's markets
META_MIN_QTY == 1
META_QTY_STEP == 1

\* trade.py handle_signal, lines 245-259
TradeQty(price, size) ==
    IF FORCE_FIXED_SIZING
    THEN compute_qty_from_margin(price, DEFAULT_LEVERAGE, FIXED_MARGIN_USD,
                                 META_MIN_QTY, META_QTY_STEP)
    ELSE qty_from_tv_size(size, META_MIN_QTY, META_QTY_STEP)

trade_size(p) ==
    LET r == proc[p] IN
    /\ r.pc = "t_size"
    /\ \E price \in Prices :
          /\ MayAnswer(price > 0)
          /\ Answered(price > 0)
          /\ LET qty == TradeQty(price, r.size)
                 r1 == [r EXCEPT !.quote = price]
             IN proc' = [proc EXCEPT ![p] =
                   IF no_amount(qty) THEN Finish(r1, "qty_zero")
                   ELSE [r1 EXCEPT !.amount = Sat(qty), !.pc = "t_place"]]
    /\ UNCHANGED <<config, net, open_symbols_cache, recent_alerts, position_cache,
                   nsignals, window, blocked>>

\* trade.py place_market_order and lines 262-272: the venue's body is returned
\* under ok: True whether the venue took the order or refused it
place_market_order(p) ==
    LET r == proc[p]
        n == net[r.sym]
    IN /\ r.pc = "t_place"
       /\ \E taken \in BOOLEAN :
             /\ taken = VenueAccepts(n, r.side, r.amount, r.reduce_only)
             /\ net' = IF taken
                       THEN [net EXCEPT ![r.sym] =
                                VenueFill(n, r.side, r.amount, r.reduce_only)]
                       ELSE net
             /\ proc' = NoteFill([proc EXCEPT ![p] =
                                     Finish([CountCall(r) EXCEPT !.placed = TRUE, !.fill = taken,
                                                      !.venue_qty = IF r.reduce_only
                                                                    THEN Abs(n) ELSE 0],
                                            "ok")],
                                 p, taken)
       /\ UNCHANGED <<nfaults, config, open_symbols_cache, recent_alerts, position_cache,
                      nsignals, window, blocked>>

(* ------------------------------------------------------ risk.py: guard   *)
\* risk.py can_open_new_coin over the positions the venue reports
can_open_new_coin(symbol, positions) ==
    LET active == {s \in Symbols : positions[s] # 0}
    IN IF symbol \in active THEN TRUE
       ELSE Cardinality(active) < MAX_COINS

(* ------------------------------------------------------- the environment *)
\* a position is closed outside the router (by hand, stop, liquidation)
ExternalClose(s) ==
    /\ net[s] # 0
    /\ net' = [net EXCEPT ![s] = 0]
    /\ UNCHANGED <<nfaults, config, open_symbols_cache, recent_alerts, position_cache,
                   proc, nsignals, window, blocked>>

(* ---------------------------------------------- the sizing functions     *)
\* inputs of the sizing functions: price 0 is what fetch_last_price returns
\* when the ticker fails, precision 0 a market without precision.amount
SzPrices == {0, 1, 3, 30}
SzLeverages == {1, 10}
SzMargins == {0, 1, 6}
SzEquities == {0, 20, 120}
SzSteps == {1, 2}
SzPrecisions == {0, 1, 2}
SzMins == {0, 1, 3}
SzTvSizes == {0, 1, 4}

SzIdle == [fn |-> "none", price |-> 0, lev |-> 0, margin |-> 0, min |-> 0,
           step |-> 0, qty |-> 0]

\* trade.py handle_signal line 254: the quantity of an entry or a dca
SizeTrade ==
    /\ \E price \in SzPrices, leverage \in SzLeverages, margin_usd \in SzMargins,
          min_qty \in SzMins, qty_step \in SzSteps :
          sz' = [fn |-> "compute_qty_from_margin", price |-> price, lev |-> leverage,
                 margin |-> margin_usd, min |-> min_qty, step |-> qty_step,
                 qty |-> compute_qty_from_margin(price, leverage, margin_usd,
                                                 min_qty, qty_step)]
    /\ UNCHANGED handlers

\* trade.py handle_signal lines 253-256: the quantity from the alert's size
SizeTv ==
    /\ \E price \in SzPrices, tv_size \in SzTvSizes, min_qty \in SzMins,
          qty_step \in SzSteps :
          sz' = [fn |-> "tv_size", price |-> price, lev |-> 0, margin |-> tv_size,
                 min |-> min_qty, step |-> qty_step,
                 qty |-> qty_from_tv_size(tv_size, min_qty, qty_step)]
    /\ UNCHANGED handlers

\* risk.py: target_qty_for_margin floored by round_size_to_step
SizeRisk ==
    /\ \E price \in SzPrices, leverage \in SzLeverages, margin \in SzMargins,
          step \in SzSteps :
          sz' = [fn |-> "round_size_to_step", price |-> price, lev |-> leverage,
                 margin |-> margin, min |-> 0, step |-> step,
                 qty |-> round_size_to_step(step,
                            target_qty_for_margin(margin, leverage, price))]
    /\ UNCHANGED handlers

\* app.py calc_open_amount with round_amount; margin is the equity it reads
SizeApp ==
    /\ \E price \in SzPrices, lev \in SzLeverages, equity \in SzEquities,
          precision \in SzPrecisions, min_amt \in SzMins :
          sz' = [fn |-> "calc_open_amount", price |-> price, lev |-> lev,
                 margin |-> equity, min |-> min_amt, step |-> precision,
                 qty |-> calc_open_amount(price, equity, lev,
                                          Market(precision, min_amt))]
    /\ UNCHANGED handlers

InitSize ==
    /\ impl = "app"
    /\ ALLOW_SHORTS = TRUE
    /\ DRY_RUN = FALSE
    /\ REQUIRE_INTENT_FOR_OPEN = TRUE
    /\ FORCE_FIXED_SIZING = TRUE
    /\ REENTER_ON_OPPOSITE = FALSE
    /\ WEBHOOK_SECRET = TRUE
    /\ net = [s \in Symbols |-> 0]
    /\ open_symbols_cache = [s \in Symbols |-> "none"]
    /\ recent_alerts = {}
    /\ position_cache = [s \in Symbols |-> "none"]
    /\ proc = [p \in Procs |-> IdleProc]
    /\ nsignals = 0
    /\ nfaults = 0
    /\ window = {}
    /\ blocked = {}
    /\ sz = SzIdle

NextSize == SizeTrade \/ SizeTv \/ SizeRisk \/ SizeApp

SpecSize == InitSize /\ [][NextSize]_vars

(* --------------------------------------------------------- specification *)
Init ==
    /\ impl \in {"app", "trade"}
    /\ ALLOW_SHORTS \in BOOLEAN
    /\ DRY_RUN \in BOOLEAN
    /\ REQUIRE_INTENT_FOR_OPEN \in (IF impl = "trade" THEN BOOLEAN ELSE {TRUE})
    /\ FORCE_FIXED_SIZING \in (IF impl = "trade" THEN BOOLEAN ELSE {TRUE})
    /\ REENTER_ON_OPPOSITE \in BOOLEAN
    \* a flag the handler does not read (DRY_RUN in trade.py, REENTER_ON_OPPOSITE
    \* in both) is set only with the flags it reads at their defaults
    /\ (impl = "trade" /\ DRY_RUN) \/ REENTER_ON_OPPOSITE =>
          /\ ALLOW_SHORTS /\ REQUIRE_INTENT_FOR_OPEN /\ FORCE_FIXED_SIZING
          /\ impl = "app" => ~DRY_RUN
    /\ DRY_RUN => ~REENTER_ON_OPPOSITE
    /\ REENTER_ON_OPPOSITE => impl = "app"
    \* trade.py line 241 reads REQUIRE_INTENT_FOR_OPEN only with ALLOW_SHORTS off
    /\ ALLOW_SHORTS => REQUIRE_INTENT_FOR_OPEN
    \* without a configured secret the other flags are at their defaults and
    \* the account starts flat
    /\ WEBHOOK_SECRET \in BOOLEAN
    /\ ~WEBHOOK_SECRET =>
          /\ ALLOW_SHORTS /\ REQUIRE_INTENT_FOR_OPEN /\ FORCE_FIXED_SIZING
          /\ ~DRY_RUN /\ ~REENTER_ON_OPPOSITE
    \* the account starts with at most MAX_COINS positions, on the first symbols
    /\ net \in {f \in [Symbols -> {-MaxQty, 0, MaxQty}] :
                   /\ \A s \in Symbols : f[s] # 0 => s <= MAX_COINS
                   /\ ~WEBHOOK_SECRET => \A s \in Symbols : f[s] = 0}
    /\ open_symbols_cache = [s \in Symbols |-> "none"]
    /\ recent_alerts = {}
    /\ position_cache = [s \in Symbols |-> "none"]
    /\ proc = [p \in Procs |-> IdleProc]
    /\ nsignals = 0
    /\ nfaults = 0
    /\ window = {}
    /\ blocked = {}
    /\ sz = SzIdle

Next ==
    \/ \E p \in Procs : ensure_exchange(p)
    \/ \E p \in Procs : webhook_check(p)
    \/ \E p \in Procs : figure_position_side(p)
    \/ \E p \in Procs : size_close(p)
    \/ \E p \in Procs : size_open(p)
    \/ \E p \in Procs : place_ok(p)
    \/ \E p \in Procs : place_fail(p)
    \/ \E p \in Procs : post_close(p)
    \/ \E p \in Procs : handle_signal_start(p)
    \/ \E p \in Procs : fetch_positions(p)
    \/ \E p \in Procs : count_distinct_symbols(p)
    \/ \E p \in Procs : trade_raise(p)
    \/ \E p \in Procs : trade_size(p)
    \/ \E p \in Procs : place_market_order(p)
    \/ \E s \in Symbols : ExternalClose(s)

Spec == Init /\ [][Next]_vars

(* ------------------------------------------------------------ properties *)
Done(p) == proc[p].pc = "done"
Classified(p) == proc[p].intent # "-"
MaxCoinsSkips == {"max_coins", "max_coins_reached"}
ShortsSkips == {"shorts_blocked", "shorts_disabled"}

\* the decision table of the classifier: held side and signal side to intent
TableIntent(held, side) ==
    IF held = "none" THEN "OPEN"
    ELSE IF (held = "long" /\ side = "buy") \/ (held = "short" /\ side = "sell")
    THEN "ADD"
    ELSE "CLOSE"

\* C1: for every held side and signal side the handler's classification is the
\* one of the decision table (flat: OPEN, same direction: ADD, opposite: CLOSE),
\* and the order carries reduceOnly exactly when the intent is CLOSE.
C1_ClassifierMatchesTable ==
    \A p \in Procs :
        Classified(p) =>
            /\ proc[p].intent = TableIntent(proc[p].held, proc[p].side)
            /\ proc[p].reduce_only = (proc[p].intent = "CLOSE")

C1_Witness ==
    \E p \in Procs :
        /\ proc[p].fill
        /\ proc[p].held = "short" /\ proc[p].side = "buy"
        /\ proc[p].intent = "CLOSE" /\ proc[p].reduce_only

\* C2: every reduce-only order sent to the venue has a quantity of at most
\* what the venue holds for the symbol when the order is sent.
C2_NeverOverCloses ==
    \A p \in Procs :
        proc[p].placed /\ proc[p].reduce_only => proc[p].amount <= proc[p].venue_qty

\* C3 as claimed: a signal on a symbol seen flat, with the counted open symbols
\* at MAX_COINS or above, ends in a max_coins skip without an order.
C3_MaxCoinsSkipAlways ==
    \A p \in Procs :
        proc[p].intent = "OPEN" /\ proc[p].count >= MAX_COINS =>
            /\ Done(p) /\ ~proc[p].placed
            /\ proc[p].result \in MaxCoinsSkips

\* C3 as amended: such a signal never sends an order and ends in a skip; the
\* skip is max_coins, except that app.py tests the shorts rule first and
\* answers shorts_blocked to a sell while shorts are disabled. The guard of
\* risk.py refuses every symbol that is not held once MAX_COINS are held.
C3_NoOpenAtMaxCoins ==
    /\ \A p \in Procs :
          proc[p].intent = "OPEN" /\ proc[p].count >= MAX_COINS =>
              /\ Done(p) /\ ~proc[p].placed
              /\ proc[p].result =
                    IF impl = "app" /\ proc[p].side = "sell" /\ ~ALLOW_SHORTS
                    THEN "shorts_blocked"
                    ELSE IF impl = "app" THEN "max_coins" ELSE "max_coins_reached"
    /\ \A s \in Symbols :
          net[s] = 0 /\ Cardinality(HeldSymbols) >= MAX_COINS => ~can_open_new_coin(s, net)

C3_Witness ==
    \E p \in Procs :
        /\ Done(p) /\ proc[p].intent = "OPEN" /\ proc[p].count >= MAX_COINS
        /\ proc[p].result = "max_coins" /\ proc[p].side = "sell"

\* C4: the number of symbols with a nonzero position on the venue never
\* exceeds MAX_COINS.
C4_MaxCoinsInvariant == Cardinality(HeldSymbols) <= MAX_COINS

\* C5: handling is a per-symbol critical section: no coroutine that saw the
\* symbol flat sends its OPEN after another coroutine that saw it flat had its
\* OPEN filled in between, and none sends a close of the whole quantity it read
\* after another coroutine that read the same quantity closed all of it.
C5_PerSymbolCriticalSection ==
    \A p \in Procs :
        proc[p].placed =>
            /\ ~(proc[p].intent = "OPEN" /\ proc[p].overlap = "OPEN")
            /\ ~(/\ proc[p].intent = "CLOSE" /\ proc[p].overlap = "CLOSE"
                 /\ proc[p].amount = proc[p].seen_qty)

\* C6: of two identical signals (symbol, side, size) received within the dedupe
\* window, the venue is sent an order for one only.
C6_IdenticalSignalsOneOrder ==
    \A p, q \in Procs :
        (p # q /\ Key(proc[p]) = Key(proc[q]) /\ proc[q].dup /\ proc[p].placed)
            => ~proc[q].placed

\* C7: with shorts disabled, a sell on a symbol seen flat is stopped at the
\* guard: it reaches neither sizing nor the venue.
C7_ShortsDisabledNoOrder ==
    \A p \in Procs :
        (~ALLOW_SHORTS /\ proc[p].intent = "OPEN" /\ proc[p].side = "sell") =>
            /\ ~proc[p].placed
            /\ proc[p].pc \notin {"size_open", "place", "t_size", "t_place"}

\* C8: a signal on a symbol that is held (ADD or CLOSE by the decision table)
\* is never refused by the shorts rule, the max-coins rule or the blocked rule.
C8_AddCloseBypassGuard ==
    \A p \in Procs :
        (Classified(p) /\ TableIntent(proc[p].held, proc[p].side) \in {"ADD", "CLOSE"}) =>
            proc[p].result \notin (MaxCoinsSkips \cup ShortsSkips \cup {"recently_blocked"})

C8_Witness ==
    \E p \in Procs :
        /\ proc[p].fill /\ proc[p].held = "short" /\ proc[p].side = "sell"
        /\ ~ALLOW_SHORTS
        /\ Cardinality(HeldSymbols) >= MAX_COINS

\* C9: a fresh OPEN on a symbol that was refused with max_coins, received
\* before the blocked TTL of that refusal has run out, sends no order.
C9_RecentlyBlockedNoOpen ==
    \A p \in Procs :
        proc[p].blk /\ proc[p].intent = "OPEN" => ~proc[p].placed

\* the venue's smallest order value
MIN_NOTIONAL == 5

\* C10: the entry quantity a sizing function returns is 0 or a positive
\* multiple of the lot step, and a nonzero quantity times the price is at
\* least the venue's minimum notional.
C10_EntryQuantityValid ==
    sz.fn # "none" =>
        /\ sz.qty >= 0
        /\ sz.step > 0 => sz.qty % sz.step = 0
        /\ sz.qty > 0 => sz.qty * sz.price >= MIN_NOTIONAL

\* the sizing functions that size an entry from a margin
SzMarginFns == {"compute_qty_from_margin", "round_size_to_step", "calc_open_amount"}

\* C11: the entry quantity is rounded down, never up: it does not exceed
\* margin * leverage / price, and a quantity below the minimum is returned as 0,
\* not raised to the minimum.
C11_RoundedDownNeverUp ==
    (sz.fn \in SzMarginFns /\ sz.price > 0) =>
        /\ IF sz.fn = "calc_open_amount"
           THEN sz.qty * sz.price * 100 <= sz.margin * FRACTION_PCT * sz.lev
           ELSE sz.qty * sz.price <= sz.margin * sz.lev
        /\ sz.qty > 0 => sz.qty >= sz.min

\* the skips of the sizing step
SizingSkips == {"amount_zero", "qty_zero", "reduce_too_small"}

\* C12: an open or add whose price or equity oracle gave no usable value ends
\* in a sizing skip and sends no order.
C12_NoQuoteNoOrder ==
    \A p \in Procs :
        (proc[p].intent \in {"OPEN", "ADD"} /\ proc[p].quote = 0) =>
            /\ Done(p) /\ ~proc[p].placed
            /\ proc[p].result \in SizingSkips

C14_OpenQuantityIgnoresSize ==
    /\ \A p, q \in Procs :
          (/\ proc[p].intent \in {"OPEN", "ADD"} /\ proc[q].intent \in {"OPEN", "ADD"}
           /\ proc[p].sym = proc[q].sym /\ proc[p].side = proc[q].side
           /\ proc[p].quote > 0 /\ proc[p].quote = proc[q].quote)
              => proc[p].amount = proc[q].amount
    /\ \A p \in Procs :
          (proc[p].reduce_only /\ proc[p].amount > 0 /\ proc[p].size > 0)
              => proc[p].amount <= proc[p].size

\* C15: every signal is classified against a position queried from the venue
\* while that signal is handled, never against the value a cache kept from
\* another signal.
C15_PositionRequeried ==
    \A p \in Procs : Classified(p) => proc[p].basis # "cache"

\* what a handler answers when a call failed
FailedResults == {"error", "raised"}

\* C18: a signal whose position query failed ends as failed without an order;
\* the failed query is not taken for a flat position.
C18_FailedQueryNotFlat ==
    \A p \in Procs :
        proc[p].basis = "failed" =>
            /\ ~Classified(p) /\ ~proc[p].placed
            /\ proc[p].pc \in {"t_fetch", "fetch_pos", "done"}
            /\ Done(p) => proc[p].result \in FailedResults

\* C17: an order the venue refused, or whose placement call failed, is
\* answered as an error, never as a success.
C17_VenueRejectionIsError ==
    \A p \in Procs :
        (Done(p) /\ proc[p].placed /\ ~proc[p].fill) => proc[p].result \in FailedResults

\* C16: with DRY_RUN set, a signal is decided and sized but no order is sent to
\* the venue.
C16_DryRunSendsNothing ==
    DRY_RUN => \A p \in Procs : ~proc[p].placed

\* app.py webhook line 429, trade.py handle_signal line 262: the placement calls
\* made for one signal
OrdersSent(p) == proc[p].calls

\* C19: an opposite signal asking for more than is held is answered, with
\* REENTER_ON_OPPOSITE false, by one reduce-only close of at most the held
\* quantity, and with REENTER_ON_OPPOSITE true by that close followed by an
\* open of the remainder.
C19_ReenterFollowsFlag ==
    \A p \in Procs :
        (/\ Done(p) /\ proc[p].intent = "CLOSE" /\ proc[p].fill
         /\ proc[p].size > proc[p].venue_qty) =>
            /\ proc[p].amount <= proc[p].venue_qty
            /\ OrdersSent(p) = IF REENTER_ON_OPPOSITE THEN 2 ELSE 1

\* C20: the rules that refuse an OPEN are tested in the order shorts_disabled,
\* max_coins, recently blocked, duplicate, and the answer names the first rule
\* that refuses: a sell on a flat symbol with shorts disabled and MAX_COINS
\* reached is answered shorts_disabled, and a repeated signal on a flat symbol
\* with MAX_COINS reached is answered max_coins, not duplicate.
C20_GuardOrder ==
    [][\A p \in Procs :
          (proc[p].pc # "done" /\ proc'[p].pc = "done") =>
              /\ (/\ proc'[p].intent = "OPEN" /\ proc'[p].side = "sell"
                  /\ ~ALLOW_SHORTS /\ proc'[p].count >= MAX_COINS)
                    => proc'[p].result \in ShortsSkips
              /\ (/\ proc'[p].result = "duplicate"
                  /\ open_symbols_cache[proc'[p].sym] = "none"
                  /\ net[proc'[p].sym] = 0)
                    => ~AppMaxCoinsReached(
                           is_new_open("none", AppReduceOnly("none", proc'[p].side)),
                           open_symbols_cache)]_vars

\* C21: no retry: whatever the outcome, a failed or refused placement
\* included, one signal calls the venue's order placement at most once.
C21_NoRetry == \A p \in Procs : OrdersSent(p) <= 1

C21_Witness ==
    \E p \in Procs :
        /\ Done(p) /\ proc[p].placed /\ ~proc[p].fill
        /\ proc[p].result \in FailedResults /\ OrdersSent(p) = 1

\* C22: in app.py a placement that raised leaves open_symbols_cache as it
\* was; the order stage rewrites the cache only after a placement call that
\* returned without error.
C22_FailedOrderKeepsCache ==
    [][\A p \in Procs :
          /\ (/\ impl = "app" /\ proc[p].pc = "place"
               /\ proc'[p].pc = "done" /\ proc'[p].result = "error")
                 => open_symbols_cache' = open_symbols_cache
          /\ (/\ impl = "app" /\ proc[p].pc \in {"place", "post_close"}
               /\ proc'[p].pc # proc[p].pc
               /\ open_symbols_cache' # open_symbols_cache)
                 => /\ proc'[p].result # "error"
                    /\ proc'[p].placed \/ DRY_RUN]_vars

\* an open on a symbol the cache does not hold was sent and raised
C22_Witness ==
    \E p \in Procs :
        /\ impl = "app" /\ Done(p) /\ proc[p].result = "error"
        /\ proc[p].intent = "OPEN" /\ proc[p].placed
        /\ open_symbols_cache[proc[p].sym] = "none"

\* how a signal ends in app.py without a filled order
UnfilledResults ==
    {"shorts_blocked", "max_coins", "amount_zero", "no_position_to_reduce",
     "reduce_too_small", "error"}

\* C23: app.py records the key (symbol, side, size) of an authorised signal
\* when it first sees it, before the position is looked up and whatever the
\* signal's outcome; an identical signal within the TTL is answered duplicate
\* and sends no order, also when the first one was skipped or failed.
C23_KeyRecordedFirst ==
    impl = "app" =>
        \A p \in Procs :
            /\ (proc[p].pc \notin {"idle", "auth"} /\ proc[p].result # "unauthorized")
                  => Key(proc[p]) \in recent_alerts
            /\ proc[p].dup =>
                  /\ Done(p) /\ proc[p].result = "duplicate"
                  /\ ~proc[p].placed /\ ~Classified(p)

C23_Witness ==
    \E p, q \in Procs :
        /\ impl = "app" /\ p # q /\ Done(p) /\ Done(q)
        /\ Key(proc[p]) = Key(proc[q])
        /\ proc[p].result \in UnfilledResults
        /\ proc[q].dup /\ proc[q].result = "duplicate"

\* C24: in app.py a symbol that went flat on the venue stops counting toward
\* MAX_COINS: the close signal that finds no position on it and ends in
\* no_position_to_reduce leaves the symbol out of open_symbols_cache.
C24_FlatSymbolLeavesCache ==
    [][\A p \in Procs :
          (/\ impl = "app" /\ proc[p].pc = "size_close"
           /\ proc'[p].pc = "done" /\ proc'[p].result = "no_position_to_reduce"
           /\ net[proc[p].sym] = 0)
             => open_symbols_cache'[proc[p].sym] = "none"]_vars

\* what the handlers answer to a request they refuse for its secret
Rejections == {"unauthorized", "bad secret"}

====
